---------------------------- MODULE Spec2Model ----------------------------
(***************************************************************************)
(* A model of the gma crate: the archive builder (gma_builder.rs), the     *)
(* archive reader (gma_reader.rs), the binary primitives (binary.rs) and   *)
(* the metadata codec (addon_metadata.rs).                                  *)
(*                                                                          *)
(* Bytes are the naturals 0..255 and a byte stream is a sequence of bytes. *)
(* A fixed-width machine integer (u32, u64) is a "word": the sequence of   *)
(* its base-256 digits, most significant digit first, so that 32-bit and   *)
(* 64-bit values keep their width.  Text is the sequence of its bytes.     *)
(***************************************************************************)
EXTENDS Naturals, Sequences, FiniteSets, TLC

(***************************************************************************)
(* Bounds of the model.                                                     *)
(***************************************************************************)
\* the number of builder method calls before write_to
MaxCalls == 3
\* the number of read_entry calls on one handle
MaxReads == 2
\* the largest byte count a callback asks for in one read
MaxChunk == 2
\* the length of the streams and texts given to the string primitives
MaxText == 3

(***************************************************************************)
(* Sequences, words and bits.                                               *)
(***************************************************************************)
None == [some |-> FALSE, val |-> <<>>]

Some(v) == [some |-> TRUE, val |-> v]

Reverse(s) == [i \in 1..Len(s) |-> s[Len(s) + 1 - i]]

Min(a, b) == IF a <= b THEN a ELSE b

Contains(s, x) == \E i \in 1..Len(s) : s[i] = x

RECURSIVE Concat(_)
\* the concatenation of a sequence of sequences
Concat(ss) == IF ss = <<>> THEN <<>> ELSE Head(ss) \o Concat(Tail(ss))

RECURSIVE Word(_, _)
\* the w-digit word of the natural n (n as uN, truncating like `as`)
Word(n, w) == IF w = 0 THEN <<>> ELSE Word(n \div 256, w - 1) \o <<n % 256>>

IsZero(word) == \A i \in 1..Len(word) : word[i] = 0

\* A position or length beyond every stream of the model: a word that does
\* not fit three digits reads as this value.
Far == 256 * 256 * 256

\* the value of a word as a stream position or byte count
Small(word) ==
    LET w == Len(word)
    IN  IF \E i \in 1..(w - 3) : word[i] # 0
        THEN Far
        ELSE word[w - 2] * 65536 + word[w - 1] * 256 + word[w]

RECURSIVE AddCarry(_, _, _)
\* digit-wise sum of two words of one width, least significant digit last;
\* the result has one more digit than the operands: the carry out, then the sum
AddCarry(a, b, c) ==
    IF a = <<>> THEN <<c>>
    ELSE LET n == Len(a)
             d == a[n] + b[n] + c
         IN  AddCarry(SubSeq(a, 1, n - 1), SubSeq(b, 1, n - 1), d \div 256)
                \o <<d % 256>>

\* u64 + u64: the wrapped sum and whether the addition overflowed
AddU64(a, b) ==
    LET r == AddCarry(a, b, 0)
    IN  [sum |-> Tail(r), overflow |-> Head(r) # 0]

RECURSIVE Bits(_, _)
\* the w bits of n, most significant first
Bits(n, w) == IF w = 0 THEN <<>> ELSE Bits(n \div 2, w - 1) \o <<n % 2>>

RECURSIVE FromBits(_)
FromBits(bs) ==
    IF bs = <<>> THEN 0 ELSE 2 * FromBits(SubSeq(bs, 1, Len(bs) - 1)) + bs[Len(bs)]

Xor(a, b) == [i \in 1..Len(a) |-> (a[i] + b[i]) % 2]

(***************************************************************************)
(* CRC-32/ISO-HDLC (crc::CRC_32_ISO_HDLC): reflected polynomial            *)
(* 0xEDB88320, initial value and final xor 0xFFFFFFFF.  The register is a  *)
(* sequence of 32 bits, most significant first.                             *)
(***************************************************************************)
CrcPoly == <<1,1,1,0, 1,1,0,1, 1,0,1,1, 1,0,0,0, 1,0,0,0, 0,0,1,1, 0,0,1,0, 0,0,0,0>>

CrcOnes == [i \in 1..32 |-> 1]

CrcShift(reg) ==
    LET shifted == <<0>> \o SubSeq(reg, 1, 31)
    IN  IF reg[32] = 1 THEN Xor(shifted, CrcPoly) ELSE shifted

RECURSIVE CrcRounds(_, _)
CrcRounds(reg, k) == IF k = 0 THEN reg ELSE CrcRounds(CrcShift(reg), k - 1)

\* digest.update of one byte
CrcByte(reg, b) == CrcRounds(Xor(reg, Bits(0, 24) \o Bits(b, 8)), 8)

RECURSIVE CrcUpdate(_, _)
\* digest.update(data_slice)
CrcUpdate(reg, bytes) ==
    IF bytes = <<>> THEN reg ELSE CrcUpdate(CrcByte(reg, Head(bytes)), Tail(bytes))

\* digest.finalize(): the checksum as a u32 word
CrcFinalize(reg) ==
    LET out == Xor(reg, CrcOnes)
    IN  [k \in 1..4 |-> FromBits(SubSeq(out, 8 * (k - 1) + 1, 8 * k))]

\* the CRC-32 of a byte sequence
Crc32(bytes) == CrcFinalize(CrcUpdate(CrcOnes, bytes))

(***************************************************************************)
(* binary.rs: the binary primitives.  A read takes the stream's bytes and  *)
(* its position (the number of bytes before the cursor) and yields         *)
(* [ok, err, val, pos]; a write yields [ok, err, bytes].                    *)
(***************************************************************************)
to_le_bytes(word) == Reverse(word)

from_le_bytes(bytes) == Reverse(bytes)

ROk(v, p) == [ok |-> TRUE, err |-> "", val |-> v, pos |-> p]

RErr(e, p) == [ok |-> FALSE, err |-> e, val |-> <<>>, pos |-> p]

\* Read::read_exact: all n bytes, or an I/O error (UnexpectedEof)
read_exact(data, pos, n) ==
    IF pos + n <= Len(data)
    THEN ROk(SubSeq(data, pos + 1, pos + n), pos + n)
    ELSE RErr("IOError", Len(data))

\* the result r with f applied to its value
MapVal(r, f(_)) == IF r.ok THEN [r EXCEPT !.val = f(r.val)] ELSE r

read_u8(data, pos) == MapVal(read_exact(data, pos, 1), LAMBDA buf : buf[1])

read_u32(data, pos) == MapVal(read_exact(data, pos, 4), from_le_bytes)

read_u64(data, pos) == MapVal(read_exact(data, pos, 8), from_le_bytes)

\* String::from_utf8 on the alphabet of the model: the ASCII bytes are valid
\* text, and a byte of 128 or more stands alone, which no UTF-8 text allows
ValidUtf8(bytes) == \A i \in 1..Len(bytes) : bytes[i] < 128

\* the index of the first null byte after index start, or the length of the
\* stream when there is none
NullFrom(data, start) ==
    IF \E i \in (start + 1)..Len(data) : data[i] = 0
    THEN CHOOSE i \in (start + 1)..Len(data) :
            data[i] = 0 /\ \A j \in (start + 1)..(i - 1) : data[j] # 0
    ELSE Len(data)

\* BufRead::read_until(0, buf): the bytes up to and including the first null
\* byte at or after pos, or up to the end of the stream
read_until_null(data, pos) ==
    SubSeq(data, Min(pos, Len(data)) + 1, NullFrom(data, Min(pos, Len(data))))

\* read_c_string once read_until has filled buf: buf.pop() drops the last
\* byte, whatever it is
c_string_of(buf, start) ==
    IF ValidUtf8(SubSeq(buf, 1, Len(buf) - 1))
    THEN ROk(SubSeq(buf, 1, Len(buf) - 1), start + Len(buf))
    ELSE RErr("InvalidUTF8", start + Len(buf))

read_c_string(data, pos) == c_string_of(read_until_null(data, pos), Min(pos, Len(data)))

\* a write of `bytes` that returns Ok(n)
WOk(bytes, n) == [ok |-> TRUE, err |-> "", bytes |-> bytes, n |-> n]

WErr(e) == [ok |-> FALSE, err |-> e, bytes |-> <<>>, n |-> 0]

write_u8(val) == WOk(<<val>>, Len(<<val>>))

write_u32(val) == WOk(to_le_bytes(val), Len(to_le_bytes(val)))

write_u64(val) == WOk(to_le_bytes(val), Len(to_le_bytes(val)))

\* write_c_string without the check of line 93
write_c_string_unchecked(val) == WOk(val \o <<0>>, Len(val) + 1)

write_c_string(val) ==
    IF Contains(val, 0) THEN WErr("InvalidCString") ELSE WOk(val \o <<0>>, Len(val) + 1)

(***************************************************************************)
(* error.rs: From<binary::Error> for Error, on the kinds of the errors.    *)
(***************************************************************************)
from_binary_error(e) ==
    IF e = "InvalidUTF8" THEN "UTF8Error"
    ELSE IF e = "InvalidCString" THEN "InvalidString"
    ELSE e


(***************************************************************************)
(* lib.rs: the magic identifier, the valid versions, the addon types and   *)
(* the addon tags.                                                          *)
(***************************************************************************)
\* b"GMAD"
IDENT == <<71, 77, 65, 68>>

VALID_VERSIONS == {1, 2, 3}

AddonType ==
    {"Gamemode", "Map", "Weapon", "Vehicle", "NPC", "Entity", "Tool", "Effects",
     "Model", "ServerContent"}

AddonTag ==
    {"Fun", "Roleplay", "Scenic", "Movie", "Realism", "Cartoon", "Water", "Comic",
     "Build"}

(***************************************************************************)
(* addon_metadata.rs: the metadata record and its text form.               *)
(***************************************************************************)
type_to_string(ty) ==
    CASE ty = "Gamemode"      -> <<103, 97, 109, 101, 109, 111, 100, 101>>
      [] ty = "Map"           -> <<109, 97, 112>>
      [] ty = "Weapon"        -> <<119, 101, 97, 112, 111, 110>>
      [] ty = "Vehicle"       -> <<118, 101, 104, 105, 99, 108, 101>>
      [] ty = "NPC"           -> <<110, 112, 99>>
      [] ty = "Entity"        -> <<101, 110, 116, 105, 116, 121>>
      [] ty = "Tool"          -> <<116, 111, 111, 108>>
      [] ty = "Effects"       -> <<101, 102, 102, 101, 99, 116, 115>>
      [] ty = "Model"         -> <<109, 111, 100, 101, 108>>
      [] ty = "ServerContent" ->
            <<115, 101, 114, 118, 101, 114, 99, 111, 110, 116, 101, 110, 116>>

tag_to_string(tag) ==
    CASE tag = "Fun"      -> <<102, 117, 110>>
      [] tag = "Roleplay" -> <<114, 111, 108, 101, 112, 108, 97, 121>>
      [] tag = "Scenic"   -> <<115, 99, 101, 110, 105, 99>>
      [] tag = "Movie"    -> <<109, 111, 118, 105, 101>>
      [] tag = "Realism"  -> <<114, 101, 97, 108, 105, 115, 109>>
      [] tag = "Cartoon"  -> <<99, 97, 114, 116, 111, 111, 110>>
      [] tag = "Water"    -> <<119, 97, 116, 101, 114>>
      [] tag = "Comic"    -> <<99, 111, 109, 105, 99>>
      [] tag = "Build"    -> <<98, 117, 105, 108, 100>>

\* str::to_lowercase on ASCII text
to_lowercase(text) ==
    [i \in 1..Len(text) |-> IF text[i] >= 65 /\ text[i] <= 90 THEN text[i] + 32 ELSE text[i]]

string_to_type(string) ==
    IF \E ty \in AddonType : type_to_string(ty) = to_lowercase(string)
    THEN Some(CHOOSE ty \in AddonType : type_to_string(ty) = to_lowercase(string))
    ELSE None

string_to_tag(string) ==
    IF \E tag \in AddonTag : tag_to_string(tag) = to_lowercase(string)
    THEN Some(CHOOSE tag \in AddonTag : tag_to_string(tag) = to_lowercase(string))
    ELSE None

\* AddonMetadata::new
AddonMetadata_new(title, description, addon_type, addon_tags) ==
    [title       |-> Some(title),
     description |-> description,
     addon_type  |-> type_to_string(addon_type),
     tags        |-> [i \in 1..Len(addon_tags) |-> tag_to_string(addon_tags[i])]]

get_description(metadata) == metadata.description

get_type(metadata) == string_to_type(metadata.addon_type)

\* the first two tag strings, each absent when missing or unrecognized
get_tag(metadata, i) ==
    IF i <= Len(metadata.tags) THEN string_to_tag(metadata.tags[i]) ELSE None

get_tags(metadata) == <<get_tag(metadata, 1), get_tag(metadata, 2)>>

(***************************************************************************)
(* The text form (nanoserde's SerJson / DeJson derive), for text without   *)
(* quotes, backslashes or control characters:                               *)
(*   {"title":"T","description":"D","type":"Y","tags":["a","b"]}          *)
(***************************************************************************)
JsonQuote == <<34>>

\* {"title":"
JsonTitle == <<123, 34, 116, 105, 116, 108, 101, 34, 58, 34>>

\* ","description":"
JsonDescription ==
    <<34, 44, 34, 100, 101, 115, 99, 114, 105, 112, 116, 105, 111, 110, 34, 58, 34>>

\* ","type":"
JsonType == <<34, 44, 34, 116, 121, 112, 101, 34, 58, 34>>

\* ","tags":[
JsonTags == <<34, 44, 34, 116, 97, 103, 115, 34, 58, 91>>

\* ]}
JsonEnd == <<93, 125>>

JsonComma == <<44>>

RECURSIVE JsonList(_)
JsonList(tags) ==
    IF tags = <<>> THEN <<>>
    ELSE JsonQuote \o Head(tags) \o JsonQuote
            \o (IF Tail(tags) = <<>> THEN <<>> ELSE JsonComma \o JsonList(Tail(tags)))

\* AddonMetadata::to_json
to_json(metadata) ==
    JsonTitle \o metadata.title.val \o JsonDescription \o metadata.description
        \o JsonType \o metadata.addon_type \o JsonTags \o JsonList(metadata.tags)
        \o JsonEnd

\* whether lit stands in text from index p on
LitAt(text, p, lit) ==
    /\ p + Len(lit) - 1 <= Len(text)
    /\ SubSeq(text, p, p + Len(lit) - 1) = lit

\* the index of the first quote at or after index p (0 when there is none)
QuoteFrom(text, p) ==
    IF \E i \in p..Len(text) : text[i] = 34
    THEN CHOOSE i \in p..Len(text) : text[i] = 34 /\ \A j \in p..(i - 1) : text[j] # 34
    ELSE 0

RECURSIVE ParseJsonList(_, _, _)
\* the list after the string that ends with the quote at index q
ParseJsonItem(text, p, q, acc) ==
    IF q = 0 THEN None
    ELSE IF LitAt(text, q + 1, JsonComma)
         THEN ParseJsonList(text, q + 2, Append(acc, SubSeq(text, p + 1, q - 1)))
         ELSE IF LitAt(text, q + 1, JsonEnd) /\ q + 2 = Len(text)
              THEN Some(Append(acc, SubSeq(text, p + 1, q - 1)))
              ELSE None

\* the tag strings from index p on, p standing after '[' or after a ','
ParseJsonList(text, p, acc) ==
    IF LitAt(text, p, JsonQuote)
    THEN ParseJsonItem(text, p, QuoteFrom(text, p + 1), acc)
    ELSE IF acc = <<>> /\ LitAt(text, p, JsonEnd) /\ p + 1 = Len(text)
         THEN Some(acc)
         ELSE None

\* A scan of the text is [ok, p, val]: the index to read at and the strings
\* taken so far.  Quoted takes the string up to the quote at index q, which
\* must open the literal lit, and moves past lit.
Quoted(text, sc, q, lit) ==
    IF q = 0 \/ ~LitAt(text, q, lit) THEN [sc EXCEPT !.ok = FALSE]
    ELSE [ok |-> TRUE, p |-> q + Len(lit), val |-> Append(sc.val, SubSeq(text, sc.p, q - 1))]

QuotedThen(text, sc, lit) ==
    IF ~sc.ok THEN sc ELSE Quoted(text, sc, QuoteFrom(text, sc.p), lit)

\* the record of the three strings of the scan sc and the tag list
JsonRecord(sc, tags) ==
    IF ~tags.some THEN None
    ELSE Some([title       |-> Some(sc.val[1]),
               description |-> sc.val[2],
               addon_type  |-> sc.val[3],
               tags        |-> tags.val])

JsonTail(json, sc) ==
    JsonRecord(sc, IF sc.ok THEN ParseJsonList(json, sc.p, <<>>) ELSE None)

\* AddonMetadata::from_json: the record, or nothing when the text is not of
\* the structured form
from_json(json) ==
    JsonTail(json,
        QuotedThen(json,
            QuotedThen(json,
                QuotedThen(json,
                    [ok |-> LitAt(json, 1, JsonTitle), p |-> Len(JsonTitle) + 1,
                     val |-> <<>>],
                    JsonDescription),
                JsonType),
            JsonTags))

(***************************************************************************)
(* lzma_rs, as far as the crate relies on it: lzma_compress writes the     *)
(* 13-byte .lzma header (properties byte 0x5D, dictionary size, unknown    *)
(* unpacked size) and then the coded payload with its end marker;          *)
(* lzma_decompress undoes that and fails on anything else.  The payload    *)
(* code of the model is the bytewise complement.                            *)
(***************************************************************************)
LzmaHeader == <<93, 0, 0, 128, 0, 255, 255, 255, 255, 255, 255, 255, 255>>

LzmaEndMarker == <<0>>

LzmaCode(bytes) == [i \in 1..Len(bytes) |-> 255 - bytes[i]]

lzma_compress(input) == LzmaHeader \o LzmaCode(input) \o LzmaEndMarker

\* whether lzma_decompress accepts the bytes
LzmaValid(rest) ==
    /\ Len(rest) >= Len(LzmaHeader) + 1
    /\ SubSeq(rest, 1, Len(LzmaHeader)) = LzmaHeader
    /\ SubSeq(rest, Len(rest), Len(rest)) = LzmaEndMarker

\* the decompressed bytes of the stream from position pos on, or an error
lzma_decompress(data, pos) ==
    IF LzmaValid(SubSeq(data, pos + 1, Len(data)))
    THEN ROk(LzmaCode(SubSeq(data, pos + Len(LzmaHeader) + 1, Len(data) - 1)), Len(data))
    ELSE RErr("CompressionError", Len(data))

(***************************************************************************)
(* gma_builder.rs: the builder.                                             *)
(***************************************************************************)
DEFAULT_VERSION == 3

DEFAULT_STEAMID == Word(0, 8)

DEFAULT_DESCRIPTION == <<>>

\* "unknown"
DEFAULT_AUTHOR == <<117, 110, 107, 110, 111, 119, 110>>

DEFAULT_COMPRESSION == FALSE

BLOCK_SIZE == 8096

\* GMABuilder::new, at the time current_timestamp
GMABuilder_new(current_timestamp) ==
    [version     |-> DEFAULT_VERSION,
     steamid     |-> DEFAULT_STEAMID,
     timestamp   |-> current_timestamp,
     name        |-> None,
     description |-> DEFAULT_DESCRIPTION,
     author      |-> DEFAULT_AUTHOR,
     files       |-> <<>>,
     addon_type  |-> "Tool",
     addon_tags  |-> <<None, None>>,
     compression |-> DEFAULT_COMPRESSION]

\* GMABuilder::addon_tag
addon_tag(b, tag) ==
    LET avail1 == ~b.addon_tags[1].some
        avail2 == ~b.addon_tags[2].some
    IN  IF avail1 = avail2
        THEN [b EXCEPT !.addon_tags = <<Some(tag), b.addon_tags[1]>>]
        ELSE [b EXCEPT !.addon_tags[2] = Some(tag)]

\* GMABuilder::file_from_bytes
file_from_bytes(b, filename, bytes) ==
    [b EXCEPT !.files = Append(@, [filename |-> filename,
                                   reader   |-> [kind |-> "Bytes", bytes |-> bytes,
                                                 script |-> <<>>]])]

\* one outcome of a read of a source: a block of data, or a failed read
DataRead(bytes) == [kind |-> "Data", bytes |-> bytes]

InterruptedRead == [kind |-> "Interrupted", bytes |-> <<>>]

FailedRead == [kind |-> "Failed", bytes |-> <<>>]

RECURSIVE ScriptBytes(_)
\* the data a source gives over the reads of its script
ScriptBytes(script) ==
    IF script = <<>> THEN <<>> ELSE Head(script).bytes \o ScriptBytes(Tail(script))

\* GMABuilder::file_from_reader: the reader is the list of the outcomes of
\* its successive reads (after them it reports its end)
file_from_reader(b, filename, script) ==
    [b EXCEPT !.files = Append(@, [filename |-> filename,
                                   reader   |-> [kind |-> "Reader",
                                                 bytes |-> ScriptBytes(script),
                                                 script |-> script]])]

(***************************************************************************)
(* A seekable writer (Cursor over a byte vector): its bytes and position.  *)
(* A step of the writer yields [ok, err, w, val].                           *)
(***************************************************************************)
NewWriter == [buf |-> <<>>, pos |-> 0, broken |-> FALSE]

\* a sink whose every write fails
BrokenWriter == [buf |-> <<>>, pos |-> 0, broken |-> TRUE]

Zeros(n) == [i \in 1..n |-> 0]

\* Write::write_all at the position: overwrites, and extends at the end
WriteAll(w, bytes) ==
    LET n      == Len(bytes)
        padded == IF w.pos > Len(w.buf) THEN w.buf \o Zeros(w.pos - Len(w.buf)) ELSE w.buf
    IN  [w EXCEPT !.buf = SubSeq(padded, 1, w.pos) \o bytes
                            \o SubSeq(padded, w.pos + n + 1, Len(padded)),
                  !.pos = w.pos + n]

SeekStart(w, offset) == [w EXCEPT !.pos = offset]

SOk(w, v) == [ok |-> TRUE, err |-> "", w |-> w, val |-> v]

SErr(e, w) == [ok |-> FALSE, err |-> e, w |-> w, val |-> <<>>]

RECURSIVE Emit(_, _)
\* the binary writes `results` made in order on w, up to the first that fails
Emit(w, results) ==
    IF results = <<>> THEN SOk(w, <<>>)
    ELSE IF ~Head(results).ok THEN SErr(from_binary_error(Head(results).err), w)
         ELSE IF w.broken THEN SErr("IOError", w)
              ELSE Emit(WriteAll(w, Head(results).bytes), Tail(results))

\* what a file source yields to successive reads of BLOCK_SIZE bytes: the
\* blocks of its bytes (reads that fail stand in the scripts of file_from_reader)
RECURSIVE ReadBlocks(_)
ReadBlocks(bytes) ==
    IF bytes = <<>> THEN <<>>
    ELSE LET n == Min(Len(bytes), BLOCK_SIZE)
         IN  <<DataRead(SubSeq(bytes, 1, n))>> \o ReadBlocks(SubSeq(bytes, n + 1, Len(bytes)))

\* match bfile.reader: the reads write_contents gets from the source
ReaderScript(reader) ==
    IF reader.kind = "Bytes" THEN ReadBlocks(reader.bytes) ELSE reader.script

\* the `?` operator on a writer step: go on with f, or return the error
Then(r, f(_)) == IF r.ok THEN f(r) ELSE r

WithVal(r, v) == IF r.ok THEN [r EXCEPT !.val = v] ELSE r

write_ident(w) == Emit(w, <<WOk(IDENT, Len(IDENT))>>)

\* an entry record whose offset is taken after the placeholders
write_incomplete_file_entry_late(w, file_number, bfile) ==
    Then(Emit(w, <<write_u32(file_number), write_c_string(bfile.filename),
                   write_u64(Word(0, 8)), write_u32(Word(0, 4))>>),
         LAMBDA r1 : WithVal(r1, r1.w.pos))

\* the entry record with placeholders; val is the offset of the placeholders
write_incomplete_file_entry(w, file_number, bfile) ==
    Then(Emit(w, <<write_u32(file_number), write_c_string(bfile.filename)>>),
         LAMBDA r1 :
            \* offset_to_patch_start is the position before the placeholders
            WithVal(Emit(r1.w, <<write_u64(Word(0, 8)), write_u32(Word(0, 4))>>),
                    r1.w.pos))

RECURSIVE write_contents(_, _, _, _)
\* the read loop of write_file_contents over the reads left in `script`
write_contents(w, script, bytes_written, digest) ==
    IF script = <<>>
    THEN SOk(w, [filesize |-> Word(bytes_written, 8), crc |-> CrcFinalize(digest)])
    ELSE IF Head(script).kind = "Interrupted"
         THEN \* Err(ref e) if e.kind() == Interrupted => continue
              write_contents(w, Tail(script), bytes_written, digest)
         ELSE IF Head(script).kind = "Failed" \/ w.broken
              THEN SErr("IOError", w)
              ELSE write_contents(WriteAll(w, Head(script).bytes), Tail(script),
                                  bytes_written + Len(Head(script).bytes),
                                  CrcUpdate(digest, Head(script).bytes))

\* streams one file; val is its FilePatchInfo
write_file_contents(w, bfile) ==
    write_contents(w, ReaderScript(bfile.reader), 0, CrcOnes)

\* the patch written where the writer stands, without the seek of line 332
apply_file_entry_patch_unseeked(w, patch_offset, patch_info) ==
    Emit(w, <<write_u64(patch_info.filesize), write_u32(patch_info.crc)>>)

apply_file_entry_patch(w, patch_offset, patch_info) ==
    Emit(SeekStart(w, patch_offset),
         <<write_u64(patch_info.filesize), write_u32(patch_info.crc)>>)

\* the tags of the occupied slots, slot 0 first
OccupiedTags(b) ==
    (IF b.addon_tags[1].some THEN <<b.addon_tags[1].val>> ELSE <<>>)
        \o (IF b.addon_tags[2].some THEN <<b.addon_tags[2].val>> ELSE <<>>)

\* the metadata text write_to_gen writes
metadata_json(b) ==
    to_json(AddonMetadata_new(b.name.val, b.description, b.addon_type, OccupiedTags(b)))

\* the writes of write_to_gen before the entry table
write_header(w, b) ==
    Then(write_ident(w),
         LAMBDA r0 :
            Emit(r0.w, <<write_u8(b.version),
                         write_u64(b.steamid),
                         write_u64(b.timestamp),
                         \* required contents: an empty string
                         write_u8(0),
                         write_c_string(b.name.val),
                         write_c_string(metadata_json(b)),
                         write_c_string(b.author),
                         \* addon_version
                         write_u32(Word(1, 4))>>))

RECURSIVE write_entries(_, _, _, _)
\* pass 1 from file i on; val is the list of the placeholder offsets
write_entries(w, files, i, patch_offsets) ==
    IF i > Len(files) THEN SOk(w, patch_offsets)
    ELSE Then(write_incomplete_file_entry(w, Word(i, 4), files[i]),
              LAMBDA r : write_entries(r.w, files, i + 1, Append(patch_offsets, r.val)))

RECURSIVE write_all_contents(_, _, _, _)
\* pass 2 from file i on; val is the list of the patch records
write_all_contents(w, files, i, patch_info) ==
    IF i > Len(files) THEN SOk(w, patch_info)
    ELSE Then(write_file_contents(w, files[i]),
              LAMBDA r : write_all_contents(r.w, files, i + 1, Append(patch_info, r.val)))

RECURSIVE apply_patches(_, _, _, _)
\* the patch pass from pair i on
apply_patches(w, patch_offsets, patch_info, i) ==
    IF i > Min(Len(patch_offsets), Len(patch_info)) THEN SOk(w, <<>>)
    ELSE Then(apply_file_entry_patch(w, patch_offsets[i], patch_info[i]),
              LAMBDA r : apply_patches(r.w, patch_offsets, patch_info, i + 1))

\* write_to_gen up to the end of pass 2; val is [patch_offsets, patch_info]
write_passes(w, b) ==
    Then(write_header(w, b),
         LAMBDA r1 :
    Then(write_entries(r1.w, b.files, 1, <<>>),
         LAMBDA r2 :
    Then(Emit(r2.w, <<write_u32(Word(0, 4))>>),
         LAMBDA r3 :
    Then(write_all_contents(r3.w, b.files, 1, <<>>),
         LAMBDA r4 :
            SOk(r4.w, [patch_offsets |-> r2.val, patch_info |-> r4.val])))))

\* GMABuilder::write_to_gen: [ok, err, w, val], err "panic" when it aborts
write_to_gen(w, b) ==
    IF ~b.name.some
    THEN \* .expect("You need to provided a name for the addon file")
         SErr("panic", w)
    ELSE Then(write_passes(w, b),
              LAMBDA r :
                 IF Len(r.val.patch_info) # Len(r.val.patch_offsets)
                 THEN \* assert_eq!
                      SErr("panic", r.w)
                 ELSE apply_patches(r.w, r.val.patch_offsets, r.val.patch_info, 1))

\* write_to compressing into the sink whatever write_to_gen left in the buffer
write_to_end_streamed(w, compression, r) ==
    IF ~compression THEN r
    ELSE IF w.broken THEN SErr("panic", w)
         ELSE [r EXCEPT !.w = WriteAll(w, lzma_compress(r.w.buf))]

\* the end of write_to on the writer w, r being the result of write_to_gen
write_to_end(w, compression, r) ==
    IF ~compression THEN r
    ELSE IF ~r.ok THEN SErr(r.err, w)
         ELSE IF w.broken
              THEN \* lzma_compress(&mut bufwriter, &mut writer).unwrap()
                   SErr("panic", w)
              ELSE SOk(WriteAll(w, lzma_compress(r.w.buf)), <<>>)

\* GMABuilder::write_to on the writer w: with compression, write_to_gen
\* writes to a buffer of its own
write_to(w, b) ==
    write_to_end(w, b.compression,
                 write_to_gen(IF b.compression THEN NewWriter ELSE w, b))

(***************************************************************************)
(* gma_reader.rs: the reader.  A StreamType is [kind, data, pos]: whether  *)
(* the input was compressed, the bytes the reads go to (the decompressed   *)
(* buffer or the input itself) and the position in them.  A step of load   *)
(* yields [ok, err, arg, pos, handle, stream]; err is "panic" when the     *)
(* code aborts instead of returning.                                        *)
(***************************************************************************)
NoStream == [kind |-> "None", data |-> <<>>, pos |-> 0]

NoHandle ==
    [loaded |-> FALSE, version |-> 0, steamid |-> Word(0, 8), timestamp |-> Word(0, 8),
     name |-> <<>>, description |-> <<>>, addon_type |-> None, addon_tags |-> <<>>,
     author |-> <<>>, entries |-> <<>>, file_data_start |-> Word(0, 8)]

LErr(e, arg, pos) ==
    [ok |-> FALSE, err |-> e, arg |-> arg, pos |-> pos, handle |-> NoHandle,
     stream |-> NoStream]

LOk(stream, handle) ==
    [ok |-> TRUE, err |-> "", arg |-> 0, pos |-> stream.pos, handle |-> handle,
     stream |-> stream]

\* get_reader_stream after the decompression d: lzma_decompress(..).unwrap()
decompressed_stream(d) ==
    IF ~d.ok THEN LErr("panic", 0, d.pos)
    ELSE LOk([kind |-> "Compressed", data |-> d.val, pos |-> 0], NoHandle)

\* a get_reader_stream that falls back to the input itself when it does not
\* decompress
probed_stream_fallback(input, probe) ==
    IF ~probe.ok THEN LErr("IOError", 0, probe.pos)
    ELSE IF probe.val = IDENT \/ ~lzma_decompress(input, 0).ok
         THEN LOk([kind |-> "Uncompressed", data |-> input, pos |-> 0], NoHandle)
         ELSE decompressed_stream(lzma_decompress(input, 0))

\* a get_reader_stream that takes every input as an uncompressed archive
probed_stream_plain(input, probe) ==
    IF ~probe.ok THEN LErr("IOError", 0, probe.pos)
    ELSE LOk([kind |-> "Uncompressed", data |-> input, pos |-> 0], NoHandle)

\* get_reader_stream after the probe of the first four bytes
probed_stream(input, probe) ==
    IF ~probe.ok THEN LErr("IOError", 0, probe.pos)
    ELSE IF probe.val = IDENT
         THEN LOk([kind |-> "Uncompressed", data |-> input, pos |-> 0], NoHandle)
         ELSE decompressed_stream(lzma_decompress(input, 0))

\* get_reader_stream on an input stream standing at its start
get_reader_stream(input) == probed_stream(input, read_exact(input, 0, 4))

\* the check of read_ident on the four bytes read
check_ident(r) ==
    IF r.ok /\ r.val # IDENT THEN RErr("InvalidIdent", r.pos) ELSE r

read_ident(data, pos) == check_ident(read_exact(data, pos, 4))

\* a version check that only rejects the versions above the newest one
check_version_newest(r) ==
    IF r.ok /\ r.val > 3
    THEN [ok |-> FALSE, err |-> "InvalidVersion", val |-> r.val, pos |-> r.pos]
    ELSE r

\* the check of read_version on the byte read
check_version(r) ==
    IF r.ok /\ r.val \notin VALID_VERSIONS
    THEN [ok |-> FALSE, err |-> "InvalidVersion", val |-> r.val, pos |-> r.pos]
    ELSE r

read_version(data, pos) == check_version(read_u8(data, pos))

RECURSIVE read_required_content_loop(_, _, _)
\* the loop of read_required_content after the string r
required_content_next(data, v, r) ==
    IF ~r.ok THEN r
    ELSE IF r.val # <<>>
         THEN read_required_content_loop(data, r.pos, Append(v, r.val))
         ELSE ROk(Append(v, r.val), r.pos)

read_required_content_loop(data, pos, v) ==
    required_content_next(data, v, read_c_string(data, pos))

read_required_content(data, pos) == read_required_content_loop(data, pos, <<>>)

\* A parse in progress is [ok, err, data, pos, val]: val is the record of the
\* fields read so far.  ReadField reads one more field with the primitive rd
\* and, like `?`, gives up at the first error.
FieldRead(st, field, r) ==
    IF r.ok THEN [st EXCEPT !.pos = r.pos, !.val[field] = r.val]
    ELSE [st EXCEPT !.ok = FALSE, !.err = r.err, !.pos = r.pos]

ReadField(st, field, rd(_, _)) ==
    IF ~st.ok THEN st ELSE FieldRead(st, field, rd(st.data, st.pos))

StartParse(data, pos, fields) ==
    [ok |-> TRUE, err |-> "", data |-> data, pos |-> pos, val |-> fields]

\* one record of the entry table after its index
read_file_entry(data, pos) ==
    ReadField(
        ReadField(
            ReadField(StartParse(data, pos,
                                 [filename |-> <<>>, filesize |-> <<>>, crc |-> <<>>]),
                      "filename", read_c_string),
            "filesize", read_u64),
        "crc", read_u32)

RECURSIVE read_file_entries_loop(_, _, _, _, _)
\* the loop body after the record e was read: the entry takes the offset and
\* current_offset += filesize (next)
file_entry_added(data, entries, current_offset, overflow_checks, e, next) ==
    IF next.overflow /\ overflow_checks THEN RErr("panic", e.pos)
    ELSE read_file_entries_loop(data, e.pos,
                                Append(entries, [filename |-> e.val.filename,
                                                 filesize |-> e.val.filesize,
                                                 crc      |-> e.val.crc,
                                                 offset   |-> current_offset]),
                                next.sum, overflow_checks)

file_entry_read(data, entries, current_offset, overflow_checks, e) ==
    IF ~e.ok THEN RErr(e.err, e.pos)
    ELSE file_entry_added(data, entries, current_offset, overflow_checks, e,
                          AddU64(current_offset, e.val.filesize))

\* the loop of read_file_entries after the index was read
file_index_read(data, entries, current_offset, overflow_checks, index) ==
    IF ~index.ok THEN index
    ELSE IF IsZero(index.val) THEN ROk(entries, index.pos)
         ELSE file_entry_read(data, entries, current_offset, overflow_checks,
                              read_file_entry(data, index.pos))

\* the loop of read_file_entries; overflow_checks tells whether the build
\* aborts on an overflowing addition (it wraps otherwise)
read_file_entries_loop(data, pos, entries, current_offset, overflow_checks) ==
    file_index_read(data, entries, current_offset, overflow_checks, read_u32(data, pos))

read_file_entries(data, pos, overflow_checks) ==
    read_file_entries_loop(data, pos, <<>>, Word(0, 8), overflow_checks)

\* the tags of a decoded record: those of the first two strings that are
\* recognized
decoded_tags(t) ==
    (IF t[1].some THEN <<t[1].val>> ELSE <<>>) \o (IF t[2].some THEN <<t[2].val>> ELSE <<>>)

\* a read_gma that leaves the description empty when the text does not decode
decoded_metadata_blank(metadata_str, metadata) ==
    IF metadata.some
    THEN [description |-> get_description(metadata.val),
          addon_type  |-> get_type(metadata.val),
          addon_tags  |-> decoded_tags(get_tags(metadata.val))]
    ELSE [description |-> <<>>, addon_type |-> None, addon_tags |-> <<>>]

\* the description, type and tags read_gma takes from the metadata text,
\* metadata being what from_json made of it
decoded_metadata(metadata_str, metadata) ==
    IF metadata.some
    THEN [description |-> get_description(metadata.val),
          addon_type  |-> get_type(metadata.val),
          addon_tags  |-> decoded_tags(get_tags(metadata.val))]
    ELSE [description |-> metadata_str, addon_type |-> None, addon_tags |-> <<>>]

DecodeMetadata(metadata_str) == decoded_metadata(metadata_str, from_json(metadata_str))

\* the fields of read_gma after the version, in the order they are read
read_fields(s, version, p0, overflow_checks) ==
    LET st0 == StartParse(s.data, p0,
                          [steamid |-> <<>>, timestamp |-> <<>>, required |-> <<>>,
                           name |-> <<>>, metadata_str |-> <<>>, author |-> <<>>,
                           addon_version |-> <<>>, entries |-> <<>>])
        st1 == ReadField(st0, "steamid", read_u64)
        st2 == ReadField(st1, "timestamp", read_u64)
        st3 == ReadField(st2, "required",
                         LAMBDA d, p : IF version > 1 THEN read_required_content(d, p)
                                       ELSE ROk(<<>>, p))
        st4 == ReadField(st3, "name", read_c_string)
        st5 == ReadField(st4, "metadata_str", read_c_string)
        st6 == ReadField(st5, "author", read_c_string)
        st7 == ReadField(st6, "addon_version", read_u32)
    IN  ReadField(st7, "entries",
                  LAMBDA d, p : read_file_entries(d, p, overflow_checks))

\* the GMAFile of the fields st and the decoded metadata m
gma_file(s, version, st, m) ==
    LOk([s EXCEPT !.pos = st.pos],
        [loaded          |-> TRUE,
         version         |-> version,
         steamid         |-> st.val.steamid,
         timestamp       |-> st.val.timestamp,
         name            |-> st.val.name,
         description     |-> m.description,
         addon_type      |-> m.addon_type,
         addon_tags      |-> m.addon_tags,
         author          |-> st.val.author,
         entries         |-> st.val.entries,
         file_data_start |-> Word(st.pos, 8)])

\* read_gma once the fields st are read
fields_read(s, version, st) ==
    IF ~st.ok THEN LErr(from_binary_error(st.err), 0, st.pos)
    ELSE gma_file(s, version, st, DecodeMetadata(st.val.metadata_str))

\* read_gma after the version: the rest of the header, the entry table and
\* the construction of the GMAFile
read_gma_body(s, version, p0, overflow_checks) ==
    fields_read(s, version, read_fields(s, version, p0, overflow_checks))

\* read_gma after read_version returned
version_read(s, version, overflow_checks) ==
    IF ~version.ok
    THEN LErr(version.err, IF version.err = "InvalidVersion" THEN version.val ELSE 0,
              version.pos)
    ELSE read_gma_body(s, version.val, version.pos, overflow_checks)

\* read_gma after read_ident returned
ident_read(s, ident, overflow_checks) ==
    IF ~ident.ok THEN LErr(ident.err, 0, ident.pos)
    ELSE version_read(s, read_version(s.data, ident.pos), overflow_checks)

\* GMAFileReader::read_gma on the stream s
read_gma(s, overflow_checks) == ident_read(s, read_ident(s.data, s.pos), overflow_checks)

\* load once GMAFileReader::new returned
reader_made(r, overflow_checks) ==
    IF ~r.ok THEN r ELSE read_gma(r.stream, overflow_checks)

\* gma::load
load(input, overflow_checks) == reader_made(get_reader_stream(input), overflow_checks)

(***************************************************************************)
(* GMAFile::read_entry, step by step.  A call at its callback is            *)
(* [entry, stream, limit, delivered]: the index of the entry, the stream   *)
(* taken out of the handle, the bytes the Take adapter still allows and    *)
(* the bytes the callback has read so far.                                  *)
(***************************************************************************)
NoCall == [entry |-> 0, stream |-> NoStream, limit |-> 0, delivered |-> <<>>]

\* a read_entry that borrows the stream and leaves it in the slot
take_reader_kept(slot) == [taken |-> slot, left |-> slot]

\* self.reader.replace(None): what the call takes and what the slot keeps
take_reader(slot) == [taken |-> slot, left |-> None]

\* the position read_entry seeks to: file_data_start + entry.offset
EntryStart(h, entry) == AddU64(h.file_data_start, entry.offset)

\* a read_entry that seeks from where the stream stands
EntryCall_relative(h, stream, i) ==
    [entry     |-> i,
     stream    |-> [stream EXCEPT !.pos = stream.pos + Small(h.entries[i].offset)],
     limit     |-> Small(h.entries[i].filesize),
     delivered |-> <<>>]

\* the bounded reader read_entry hands to its callback: the stream sought to
\* the start of the entry under a Take of the entry's size
EntryCall(h, stream, i) ==
    [entry     |-> i,
     stream    |-> [stream EXCEPT !.pos = Small(EntryStart(h, h.entries[i]).sum)],
     limit     |-> Small(h.entries[i].filesize),
     delivered |-> <<>>]

\* the bytes one read of at most n bytes through the Take adapter yields
TakeRead(c, n) ==
    LET max   == Min(n, c.limit)
        avail == IF c.stream.pos >= Len(c.stream.data) THEN 0
                 ELSE Len(c.stream.data) - c.stream.pos
        got   == Min(max, avail)
    IN  SubSeq(c.stream.data, c.stream.pos + 1, c.stream.pos + got)

\* the bytes the callback can still obtain by reading to the end
Obtainable(c) == TakeRead(c, c.limit)

(***************************************************************************)
(* The inputs of the model.                                                 *)
(***************************************************************************)
\* SystemTime::now() at GMABuilder::new
Now == Word(1595515015, 8)

Versions == {1, 2, 3}

Steamids == {Word(123456, 8)}

Timestamps == {Word(987654, 8)}

\* "N"
Names == {<<78>>}

\* "D"
Descriptions == {<<68>>}

\* "au"
Authors == {<<97, 117>>}

Types == {"Model"}

Tags == {"Build", "Fun", "Water"}

\* "f", "g"
FileNames == {<<102>>, <<103>>}

FileContents == {<<>>, <<7>>, <<104, 105>>}

\* "r"
ReaderNames == {<<114>>}

\* readers whose second read is interrupted, or fails otherwise
ReaderScripts ==
    {<<DataRead(<<7>>), InterruptedRead, DataRead(<<8>>)>>,
     <<DataRead(<<7>>), FailedRead>>}

RECURSIVE TextsOver(_, _)
\* the byte strings of at most n bytes of the alphabet
TextsOver(alphabet, n) ==
    IF n = 0 THEN {<<>>}
    ELSE TextsOver(alphabet, n - 1)
            \cup {Append(t, b) : t \in TextsOver(alphabet, n - 1), b \in alphabet}

\* streams given to read_c_string: null bytes, text and a byte that no text has
ReadTexts == TextsOver({0, 65, 200}, MaxText)

\* texts given to write_c_string
WriteTexts == TextsOver({0, 65, 66}, MaxText)

(***************************************************************************)
(* Streams that no builder wrote: a byte layout with every field free.     *)
(***************************************************************************)
RECURSIVE RawTable(_, _)
\* the entry records of a table, numbered from i
RawTable(table, i) ==
    IF table = <<>> THEN <<>>
    ELSE to_le_bytes(Word(i, 4)) \o Head(table).filename \o <<0>>
            \o to_le_bytes(Head(table).filesize) \o to_le_bytes(Head(table).crc)
            \o RawTable(Tail(table), i + 1)

RawArchive(ident, version, required, name, meta, author, table, data) ==
    ident \o <<version>> \o to_le_bytes(Word(7, 8)) \o to_le_bytes(Word(9, 8))
        \o required \o name \o <<0>> \o meta \o <<0>> \o author \o <<0>>
        \o to_le_bytes(Word(1, 4)) \o RawTable(table, 1) \o to_le_bytes(Word(0, 4))
        \o data

RawEntry(filename, size) ==
    [filename |-> filename, filesize |-> Word(size, 8), crc |-> Word(258, 4)]

\* tables over three bytes of content: sizes that fit, and sizes that do not
RawTables ==
    {<<>>,
     <<RawEntry(<<102>>, 2)>>,
     <<RawEntry(<<102>>, 1), RawEntry(<<103>>, 2)>>,
     <<RawEntry(<<102>>, 5)>>,
     <<RawEntry(<<102>>, 2), RawEntry(<<103>>, 4)>>}

RawData == <<10, 11, 12>>

\* metadata texts: plain text, the empty text, a brace, a cut structured
\* text, and a structured text with an upper-case type, an unknown tag and
\* three tags
RawMetas ==
    {<<68, 32, 100>>,
     <<>>,
     <<123>>,
     JsonTitle \o <<84>>,
     to_json([title |-> Some(<<84>>), description |-> <<100>>,
              addon_type |-> <<77, 65, 80>>,
              tags |-> <<<<70, 117, 110>>, <<120>>, <<119, 97, 116, 101, 114>>>>]),
     to_json([title |-> Some(<<84>>), description |-> <<>>,
              addon_type |-> <<120>>, tags |-> <<>>])}

\* the required-content sections: empty, and one string before the end
RawRequired(version) == IF version > 1 THEN {<<0>>, <<114, 0, 0>>} ELSE {<<>>}

WellFormedStreams ==
    {RawArchive(IDENT, v, req, <<110>>, meta, <<97>>, table, RawData) :
        v \in VALID_VERSIONS, req \in {<<>>, <<0>>, <<114, 0, 0>>},
        meta \in RawMetas, table \in RawTables}

Sample == RawArchive(IDENT, 2, <<0>>, <<110>>, <<68>>, <<97>>,
                     <<RawEntry(<<102>>, 2)>>, RawData)

Prefixes(stream) == {SubSeq(stream, 1, n) : n \in 0..Len(stream)}

BadVersionStreams ==
    {RawArchive(IDENT, v, <<0>>, <<110>>, <<68>>, <<97>>, <<>>, <<>>) : v \in {0, 4, 255}}
        \cup {IDENT \o <<v>> : v \in {0, 4, 255}}

\* neither the magic identifier nor a compressed stream
ForeignStreams ==
    {<<71, 77, 65, 88>> \o SubSeq(Sample, 5, Len(Sample)),
     <<1, 2, 3, 4>>,
     LzmaHeader \o <<1, 2, 3>>,
     SubSeq(LzmaHeader, 1, 6)}

CompressedStreams ==
    {lzma_compress(x) : x \in {Sample, <<>>, <<71, 77>>, <<1, 2, 3, 4, 5>>,
                               IDENT \o <<9>>,
                               RawArchive(IDENT, 1, <<>>, <<110>>, <<68, 32, 100>>,
                                          <<97>>, <<RawEntry(<<102>>, 5)>>, RawData)}}

\* a name that is not valid text
BadTextStreams ==
    {RawArchive(IDENT, 3, <<0>>, <<110, 255>>, <<68>>, <<97>>, <<>>, <<>>)}

\* u64::MAX
U64Max == [i \in 1..8 |-> 255]

\* a table whose declared sizes add up to more than u64::MAX
OverflowTable ==
    <<[filename |-> <<102>>, filesize |-> U64Max, crc |-> Word(258, 4)],
      RawEntry(<<103>>, 1),
      RawEntry(<<104>>, 2)>>

OverflowStreams ==
    {RawArchive(IDENT, 3, <<0>>, <<110>>, <<68>>, <<97>>, OverflowTable, RawData)}

CraftedStreams ==
    WellFormedStreams \cup Prefixes(Sample) \cup BadVersionStreams
        \cup ForeignStreams \cup CompressedStreams \cup BadTextStreams
        \cup OverflowStreams

(***************************************************************************)
(* The state.                                                               *)
(***************************************************************************)
VARIABLES
    builder,      \* the GMABuilder
    tagsAdded,    \* the tags passed to addon_tag so far, in call order
    calls,        \* the number of builder method calls so far
    pc,           \* "build", "written", "loadfail", "open", "callback", "panicked", "done"
    sink,         \* the writer given to write_to
    writeResult,  \* "" before write_to, then "Ok", an error kind or "panic"
    input,        \* the byte stream given to load
    loadResult,   \* the [ok, err, arg, pos] of load ("" before)
    handle,       \* the GMAFile
    reader,       \* GMAFile::reader: None or Some(stream)
    call,         \* the last read_entry call that reached its callback
    reads,        \* the number of read_entry calls so far
    readResult,   \* the result of the last read_entry: "", "Ok", "IOError", "panic"
    compressedResult, \* what the last compressed() returned: "", "true", "false", "panic"
    passes,       \* what write_to_gen held when it reached the patch pass
    firstBytes,   \* per entry, the bytes its first read_entry callback could obtain
    binary,       \* the last call of read_c_string or write_c_string made directly
    parse         \* read_gma taken one read or one loop iteration at a time

vars ==
    <<builder, tagsAdded, calls, pc, sink, writeResult, input, loadResult, handle,
      reader, call, reads, readResult, compressedResult, passes, firstBytes, binary,
      parse>>

builderVars == <<builder, tagsAdded, calls>>

writerVars == <<sink, writeResult, passes>>

loadVars == <<input, loadResult, handle>>

readVars == <<reader, call, reads, readResult, compressedResult, firstBytes>>

\* write_to_gen did not reach the patch pass
NoPasses == [reached |-> FALSE, patch_offsets |-> <<>>, patch_info |-> <<>>, buf |-> <<>>]

\* no read_gma under way
NoParse ==
    [phase |-> "idle", data |-> <<>>, pos |-> 0, version |-> 0,
     current_offset |-> Word(0, 8), overflow_checks |-> FALSE, err |-> ""]

\* the variables of the calls made on the builder, the writer and the handle
programVars ==
    <<builder, tagsAdded, calls, pc, sink, writeResult, input, loadResult, handle,
      reader, call, reads, readResult, compressedResult, passes, firstBytes, binary>>

NoBinary ==
    [op |-> "", arg |-> <<>>, ok |-> FALSE, err |-> "", val |-> <<>>, n |-> 0, sink |-> <<>>]

NoResult == [ok |-> FALSE, err |-> "", arg |-> 0, pos |-> 0]

\* the state after construction, whatever read_gma is under way
Idle ==
    /\ builder = GMABuilder_new(Now)
    /\ tagsAdded = <<>>
    /\ calls = 0
    /\ pc = "build"
    /\ sink = NewWriter
    /\ writeResult = ""
    /\ input = <<>>
    /\ loadResult = NoResult
    /\ handle = NoHandle
    /\ reader = None
    /\ call = NoCall
    /\ reads = 0
    /\ readResult = ""
    /\ compressedResult = ""
    /\ passes = NoPasses
    /\ firstBytes = <<>>
    /\ binary = NoBinary

Init == Idle /\ parse = NoParse

(***************************************************************************)
(* The builder's methods.                                                   *)
(***************************************************************************)
BuilderCall(b) ==
    /\ pc = "build"
    /\ calls < MaxCalls
    /\ builder' = b
    /\ calls' = calls + 1
    /\ UNCHANGED <<pc, writerVars, loadVars, readVars, binary, parse>>

SetVersion == \E v \in Versions :
    BuilderCall([builder EXCEPT !.version = v]) /\ UNCHANGED tagsAdded

SetSteamid == \E id \in Steamids :
    BuilderCall([builder EXCEPT !.steamid = id]) /\ UNCHANGED tagsAdded

SetTimestamp == \E t \in Timestamps :
    BuilderCall([builder EXCEPT !.timestamp = t]) /\ UNCHANGED tagsAdded

SetName == \E n \in Names :
    BuilderCall([builder EXCEPT !.name = Some(n)]) /\ UNCHANGED tagsAdded

SetDescription == \E d \in Descriptions :
    BuilderCall([builder EXCEPT !.description = d]) /\ UNCHANGED tagsAdded

SetAuthor == \E a \in Authors :
    BuilderCall([builder EXCEPT !.author = a]) /\ UNCHANGED tagsAdded

SetCompression == \E c \in BOOLEAN :
    BuilderCall([builder EXCEPT !.compression = c]) /\ UNCHANGED tagsAdded

SetAddonType == \E ty \in Types :
    BuilderCall([builder EXCEPT !.addon_type = ty]) /\ UNCHANGED tagsAdded

AddTag == \E tag \in Tags :
    /\ BuilderCall(addon_tag(builder, tag))
    /\ tagsAdded' = Append(tagsAdded, tag)

AddFile == \E filename \in FileNames, bytes \in FileContents :
    BuilderCall(file_from_bytes(builder, filename, bytes)) /\ UNCHANGED tagsAdded

AddReader == \E filename \in ReaderNames, script \in ReaderScripts :
    BuilderCall(file_from_reader(builder, filename, script)) /\ UNCHANGED tagsAdded

\* the state after write_to returned r
Wrote(r) ==
    /\ sink' = r.w
    /\ writeResult' = IF r.ok THEN "Ok" ELSE r.err
    /\ pc' = IF r.err = "panic" THEN "panicked" ELSE "written"

\* what write_to_gen holds before its assert_eq!, r being the result of the
\* passes before it
PassesOf(r) ==
    IF ~r.ok THEN NoPasses
    ELSE [reached       |-> TRUE,
          patch_offsets |-> r.val.patch_offsets,
          patch_info    |-> r.val.patch_info,
          buf           |-> r.w.buf]

\* write_to on an in-memory writer that is empty, or on a sink that fails
WriteTo == \E w \in {NewWriter, BrokenWriter} :
    /\ pc = "build"
    /\ Wrote(write_to(w, builder))
    /\ passes' = IF builder.name.some
                 THEN PassesOf(write_passes(IF builder.compression THEN NewWriter ELSE w,
                                            builder))
                 ELSE NoPasses
    /\ UNCHANGED <<builderVars, loadVars, readVars, binary, parse>>

(***************************************************************************)
(* load.                                                                    *)
(***************************************************************************)
\* the state after load returned r on the stream
Loaded(stream, r) ==
    /\ input' = stream
    /\ loadResult' = [ok |-> r.ok, err |-> r.err, arg |-> r.arg, pos |-> r.pos]
    /\ handle' = r.handle
    /\ reader' = IF r.ok THEN Some(r.stream) ELSE None
    /\ pc' = IF r.ok THEN "open" ELSE IF r.err = "panic" THEN "panicked" ELSE "loadfail"
    /\ firstBytes' = [i \in 1..Len(r.handle.entries) |-> None]
    /\ UNCHANGED <<builderVars, writerVars, call, reads, readResult, compressedResult,
                   binary, parse>>

Load(stream, overflow_checks) == Loaded(stream, load(stream, overflow_checks))

\* load of the archive write_to wrote
LoadWritten == \E overflow_checks \in BOOLEAN :
    /\ pc = "written"
    /\ writeResult = "Ok"
    /\ Load(sink.buf, overflow_checks)

\* load of a stream from elsewhere
LoadStream == \E stream \in CraftedStreams, overflow_checks \in BOOLEAN :
    /\ pc = "build"
    /\ calls = 0
    /\ Load(stream, overflow_checks)

(***************************************************************************)
(* The calls on the handle.                                                 *)
(***************************************************************************)
\* read_entry up to the call of the callback.  seek_ok tells whether the
\* seek of the underlying reader succeeds; the seek of the in-memory buffer
\* of a compressed archive never fails.
ReadEntry ==
    /\ pc \in {"open", "callback"}
    /\ reads < MaxReads
    /\ reads' = reads + 1
    /\ reader' = take_reader(reader).left
    /\ \E i \in 1..Len(handle.entries), seek_ok \in BOOLEAN, overflow_checks \in BOOLEAN :
       IF ~take_reader(reader).taken.some
       THEN \* .unwrap() of an empty slot
            /\ pc' = "panicked"
            /\ readResult' = "panic"
            /\ UNCHANGED <<call, firstBytes>>
       ELSE LET stream == take_reader(reader).taken.val
                entry  == handle.entries[i]
                start  == EntryStart(handle, entry)
            IN  IF start.overflow /\ overflow_checks
                THEN /\ pc' = "panicked"
                     /\ readResult' = "panic"
                     /\ UNCHANGED <<call, firstBytes>>
                ELSE IF stream.kind = "Uncompressed" /\ ~seek_ok
                     THEN \* the `?` after seek: the stream is dropped
                          /\ pc' = "open"
                          /\ readResult' = "IOError"
                          /\ UNCHANGED <<call, firstBytes>>
                     ELSE /\ pc' = "callback"
                          /\ call' = EntryCall(handle, stream, i)
                          /\ firstBytes' =
                                IF firstBytes[i].some THEN firstBytes
                                ELSE [firstBytes EXCEPT
                                         ![i] = Some(Obtainable(EntryCall(handle, stream, i)))]
                          /\ UNCHANGED readResult
    /\ UNCHANGED <<builderVars, writerVars, loadVars, compressedResult, binary, parse>>

\* the callback reads up to n bytes from the bounded reader
CallbackRead == \E n \in 1..MaxChunk :
    /\ pc = "callback"
    /\ LET got == TakeRead(call, n)
       IN  call' = [call EXCEPT !.stream.pos = @ + Len(got),
                                !.limit = @ - Len(got),
                                !.delivered = @ \o got]
    /\ UNCHANGED <<builderVars, writerVars, loadVars, pc, reader, reads, readResult,
                   compressedResult, firstBytes, binary, parse>>

\* the callback returns and read_entry puts the stream back
CallbackReturn ==
    /\ pc = "callback"
    /\ reader' = Some(call.stream)
    /\ readResult' = "Ok"
    /\ pc' = "open"
    /\ UNCHANGED <<builderVars, writerVars, loadVars, call, reads, compressedResult,
                   firstBytes, binary, parse>>

\* GMAFile::compressed
Compressed ==
    /\ pc \in {"open", "callback"}
    /\ IF reader.some
       THEN /\ compressedResult' = IF reader.val.kind = "Compressed" THEN "true" ELSE "false"
            /\ UNCHANGED pc
       ELSE \* .expect("The reader should not be None, this is a bug")
            /\ compressedResult' = "panic"
            /\ pc' = "panicked"
    /\ UNCHANGED <<builderVars, writerVars, loadVars, reader, call, reads, readResult,
                   firstBytes, binary, parse>>

(***************************************************************************)
(* The binary primitives called directly on an in-memory stream.           *)
(***************************************************************************)
\* the state after read_c_string returned r on the stream data
ReadString(data, r) ==
    binary' = [op |-> "read_c_string", arg |-> data, ok |-> r.ok, err |-> r.err,
               val |-> r.val, n |-> Len(read_until_null(data, 0)), sink |-> <<>>]

\* BinaryReader::read_c_string on a stream standing at its start
ReadCString == \E data \in ReadTexts :
    /\ pc = "build"
    /\ calls = 0
    /\ ReadString(data, read_c_string(data, 0))
    /\ pc' = "done"
    /\ UNCHANGED <<builderVars, writerVars, loadVars, readVars, parse>>

\* the state after write_c_string on an empty vector: r is what it returned
\* and s the result of its writes
WroteString(val, r, s) ==
    binary' = [op |-> "write_c_string", arg |-> val, ok |-> r.ok, err |-> r.err,
               val |-> <<>>, n |-> r.n, sink |-> s.w.buf]

\* BinaryWriter::write_c_string on an empty vector
WriteCString == \E val \in WriteTexts :
    /\ pc = "build"
    /\ calls = 0
    /\ WroteString(val, write_c_string(val), Emit(NewWriter, <<write_c_string(val)>>))
    /\ pc' = "done"
    /\ UNCHANGED <<builderVars, writerVars, loadVars, readVars, parse>>

Next ==
    \/ SetVersion
    \/ SetSteamid
    \/ SetTimestamp
    \/ SetName
    \/ SetDescription
    \/ SetAuthor
    \/ SetCompression
    \/ SetAddonType
    \/ AddTag
    \/ AddFile
    \/ AddReader
    \/ WriteTo
    \/ LoadWritten
    \/ LoadStream
    \/ ReadEntry
    \/ CallbackRead
    \/ CallbackReturn
    \/ Compressed
    \/ ReadCString
    \/ WriteCString

Spec == Init /\ [][Next]_vars

(***************************************************************************)
(* read_gma on an uncompressed stream, one read or one loop iteration at a  *)
(* time.  parse is [phase, data, pos, version, current_offset,              *)
(* overflow_checks, err]: what read_gma does next, the stream and the       *)
(* position in it, the version read, the running offset of                  *)
(* read_file_entries, whether the build aborts on an overflowing addition,  *)
(* and the error returned.  The phases "returned", "failed" and "panicked"  *)
(* are the ends: a handle, an error result, an abort.                       *)
(***************************************************************************)
\* an archive with two required-content strings and two entries
LongArchive ==
    RawArchive(IDENT, 3, <<114, 0, 115, 116, 0, 0>>, <<110>>, <<68>>, <<97>>,
               <<RawEntry(<<102>>, 1), RawEntry(<<103>>, 2)>>, RawData)

\* an archive of version 1, which has no required-content section
OldArchive ==
    RawArchive(IDENT, 1, <<>>, <<110>>, <<68>>, <<97>>, <<RawEntry(<<102>>, 2)>>, RawData)

\* the streams with the magic identifier that end anywhere in an archive,
\* and the streams with a text that is not valid or a table that overflows
MagicStreams ==
    {x \in Prefixes(LongArchive) \cup Prefixes(OldArchive) : Len(x) >= 4}
        \cup BadTextStreams \cup OverflowStreams

LoadInit ==
    /\ Idle
    /\ \E data \in MagicStreams, overflow_checks \in BOOLEAN :
          parse = [NoParse EXCEPT !.phase = "ident", !.data = data,
                                  !.overflow_checks = overflow_checks]

\* the `?` on the read r: go on to the phase after it, or return the error
ParseMoved(r, phase) ==
    IF r.ok THEN [parse EXCEPT !.pos = r.pos, !.phase = phase]
    ELSE [parse EXCEPT !.pos = r.pos, !.phase = "failed", !.err = from_binary_error(r.err)]

ParseIdent ==
    /\ parse.phase = "ident"
    /\ parse' = ParseMoved(read_ident(parse.data, parse.pos), "version")
    /\ UNCHANGED programVars

\* read_version returned r
VersionParsed(r) ==
    IF r.ok THEN [parse EXCEPT !.pos = r.pos, !.phase = "steamid", !.version = r.val]
    ELSE ParseMoved(r, "failed")

ParseVersion ==
    /\ parse.phase = "version"
    /\ parse' = VersionParsed(read_version(parse.data, parse.pos))
    /\ UNCHANGED programVars

ParseSteamid ==
    /\ parse.phase = "steamid"
    /\ parse' = ParseMoved(read_u64(parse.data, parse.pos), "timestamp")
    /\ UNCHANGED programVars

\* read_timestamp and the test of the version
ParseTimestamp ==
    /\ parse.phase = "timestamp"
    /\ parse' = ParseMoved(read_u64(parse.data, parse.pos),
                           IF parse.version > 1 THEN "required" ELSE "name")
    /\ UNCHANGED programVars

\* one iteration of the loop of read_required_content: the loop goes on
\* after a string that is not empty
ParseRequired ==
    /\ parse.phase = "required"
    /\ parse' = ParseMoved(read_c_string(parse.data, parse.pos),
                           IF read_c_string(parse.data, parse.pos).val # <<>>
                           THEN "required" ELSE "name")
    /\ UNCHANGED programVars

ParseName ==
    /\ parse.phase = "name"
    /\ parse' = ParseMoved(read_c_string(parse.data, parse.pos), "desc")
    /\ UNCHANGED programVars

ParseDesc ==
    /\ parse.phase = "desc"
    /\ parse' = ParseMoved(read_c_string(parse.data, parse.pos), "author")
    /\ UNCHANGED programVars

ParseAuthor ==
    /\ parse.phase = "author"
    /\ parse' = ParseMoved(read_c_string(parse.data, parse.pos), "addon_version")
    /\ UNCHANGED programVars

ParseAddonVersion ==
    /\ parse.phase = "addon_version"
    /\ parse' = ParseMoved(read_u32(parse.data, parse.pos), "index")
    /\ UNCHANGED programVars

\* one test of the loop of read_file_entries: an index of zero ends the table
ParseIndex ==
    /\ parse.phase = "index"
    /\ parse' = ParseMoved(read_u32(parse.data, parse.pos),
                           IF IsZero(read_u32(parse.data, parse.pos).val)
                           THEN "returned" ELSE "filename")
    /\ UNCHANGED programVars

ParseFilename ==
    /\ parse.phase = "filename"
    /\ parse' = ParseMoved(read_c_string(parse.data, parse.pos), "filesize")
    /\ UNCHANGED programVars

\* the rest of the body of the loop of read_file_entries, filesize and crc
\* being the size and the checksum read: current_offset += filesize (next)
EntryAdded(filesize, crc, next) ==
    IF ~filesize.ok THEN ParseMoved(filesize, "failed")
    ELSE IF ~crc.ok THEN ParseMoved(crc, "failed")
    ELSE IF next.overflow /\ parse.overflow_checks
         THEN [parse EXCEPT !.pos = crc.pos, !.phase = "panicked"]
         ELSE [parse EXCEPT !.pos = crc.pos, !.phase = "index",
                            !.current_offset = next.sum]

\* read_u64 of the size, read_u32 of the checksum and the addition
ParseFilesize ==
    /\ parse.phase = "filesize"
    /\ parse' = EntryAdded(read_u64(parse.data, parse.pos),
                           read_u32(parse.data, read_u64(parse.data, parse.pos).pos),
                           AddU64(parse.current_offset, read_u64(parse.data, parse.pos).val))
    /\ UNCHANGED programVars

LoadNext ==
    \/ ParseIdent
    \/ ParseVersion
    \/ ParseSteamid
    \/ ParseTimestamp
    \/ ParseRequired
    \/ ParseName
    \/ ParseDesc
    \/ ParseAuthor
    \/ ParseAddonVersion
    \/ ParseIndex
    \/ ParseFilename
    \/ ParseFilesize

\* read_gma runs on: nothing suspends it between two reads
LoadSpec == LoadInit /\ [][LoadNext]_vars /\ WF_vars(LoadNext)

(***************************************************************************)
(* Properties.                                                              *)
(***************************************************************************)
\* load was called and has returned or aborted
LoadCalled == loadResult.ok \/ loadResult.err # ""

\* load has just returned or aborted; its result, the input and the handle
\* stay as they are from then on
LoadReturned == LoadCalled /\ reads = 0 /\ compressedResult = ""

\* the archive loaded is the uncompressed archive write_to wrote
LoadedWritten == writeResult = "Ok" /\ LoadCalled

\* the tags in the two slots of the builder
SlotTags == {builder.addon_tags[i].val : i \in {j \in 1..2 : builder.addon_tags[j].some}}

\* the bytes the callback of the last read_entry has read and can still read
CallBytes == call.delivered \o Obtainable(call)

\* the bytes of data from position from (counted from 0) up to position to
Range(data, from, to) == IF from >= to THEN <<>> ELSE SubSeq(data, from + 1, to)

\* the bytes of the stream that belong to the entry e of the handle h
EntryRange(h, e, data) ==
    Range(data, Small(h.file_data_start) + Small(e.offset),
          Min(Small(h.file_data_start) + Small(e.offset) + Small(e.filesize), Len(data)))

\* the header of an archive before the required-content section: the magic,
\* the version byte, the author id and the timestamp
FixedHeaderLen == Len(IDENT) + 1 + 8 + 8

\* C1: an archive written uncompressed by write_to and opened by load gives
\* back the version, author id, timestamp, name, description, author, type
\* and tags of the builder, one entry per file in order with the filename,
\* the length of the bytes and the checksum of the bytes, and read_entry
\* delivers the bytes of the file.
C1_RoundTrip ==
    (LoadedWritten /\ ~builder.compression) =>
        /\ loadResult.ok
        /\ handle.version = builder.version
        /\ handle.steamid = builder.steamid
        /\ handle.timestamp = builder.timestamp
        /\ handle.name = builder.name.val
        /\ handle.description = builder.description
        /\ handle.author = builder.author
        /\ handle.addon_type = Some(builder.addon_type)
        /\ handle.addon_tags = OccupiedTags(builder)
        /\ Len(handle.entries) = Len(builder.files)
        /\ \A i \in 1..Len(builder.files) :
              /\ handle.entries[i].filename = builder.files[i].filename
              /\ handle.entries[i].filesize = Word(Len(builder.files[i].reader.bytes), 8)
              /\ handle.entries[i].crc = Crc32(builder.files[i].reader.bytes)
        /\ call.entry # 0 => CallBytes = builder.files[call.entry].reader.bytes

\* C2: after one addon_tag call the slots hold that tag; after two or more
\* calls they hold the last two tags added, so that T1, T2, T3 leaves T3
\* and T2.
C2_TagEviction ==
    /\ Len(tagsAdded) = 1 => SlotTags = {tagsAdded[1]}
    /\ Len(tagsAdded) >= 2 =>
          SlotTags = {tagsAdded[Len(tagsAdded)], tagsAdded[Len(tagsAdded) - 1]}

\* C3: the archive write_to writes has the terminator byte of the
\* required-content section between the timestamp and the addon name if and
\* only if the version is above 1; a version-1 archive has the name right
\* after the timestamp.
C3_VersionGating ==
    (writeResult = "Ok" /\ ~builder.compression) =>
        IF builder.version > 1
        THEN /\ sink.buf[FixedHeaderLen + 1] = 0
             /\ SubSeq(sink.buf, FixedHeaderLen + 2,
                       FixedHeaderLen + 2 + Len(builder.name.val))
                    = builder.name.val \o <<0>>
        ELSE SubSeq(sink.buf, FixedHeaderLen + 1,
                    FixedHeaderLen + 1 + Len(builder.name.val))
                 = builder.name.val \o <<0>>

\* C4: load of a stream of at least 4 bytes that does not start with the
\* magic identifier and does not decompress returns CompressionError: no
\* handle, and no abort of the caller.
C4_MalformedHeader ==
    (/\ LoadCalled
     /\ Len(input) >= 4
     /\ SubSeq(input, 1, 4) # IDENT
     /\ ~lzma_decompress(input, 0).ok) =>
        /\ pc = "loadfail"
        /\ loadResult.err = "CompressionError"
        /\ ~handle.loaded

\* C5: once a read_entry call has returned, with Ok or with an error, the
\* stream slot of the handle holds the stream again.
C5_StreamRestored ==
    (pc = "open" /\ readResult # "") => reader.some

\* C6: while a read_entry callback runs the stream slot is empty, and a
\* read_entry called during the callback is rejected and leaves the bounded
\* reader of the outer call, its position and its limit, as they were.
C6_OneInFlight ==
    /\ [](pc = "callback" => ~reader.some)
    /\ [][(pc = "callback" /\ reads' # reads) =>
             (pc' = "panicked" /\ readResult' = "panic" /\ call' = call
                 /\ ~reader'.some)]_vars

\* a read_entry called from a callback that had already read some bytes and
\* could read more
C6_Witness ==
    /\ pc = "panicked"
    /\ readResult = "panic"
    /\ reads = 2
    /\ ~reader.some
    /\ call.entry # 0
    /\ call.delivered # <<>>
    /\ call.limit > 0

\* C7: the bytes the read_entry callback can obtain are the bytes of the
\* stream from file_data_start + offset up to that position plus the size of
\* the entry, or up to the end of the stream when it ends before.
C7_BoundedReader ==
    (call.entry # 0 /\ handle.loaded) =>
        CallBytes = EntryRange(handle, handle.entries[call.entry], call.stream.data)

\* the well-formed archives whose metadata text does not decode as the
\* structured record, each with its metadata text
PlainArchives ==
    {[stream |-> RawArchive(IDENT, v[1], v[2], <<110>>, meta, <<97>>, table, RawData),
      meta   |-> meta] :
        v \in {w \in {1, 2, 3} \X {<<>>, <<0>>, <<114, 0, 0>>} : w[2] \in RawRequired(w[1])},
        meta \in {m \in RawMetas : ~from_json(m).some},
        table \in RawTables}

\* C8: load of a well-formed archive whose metadata text does not decode as
\* the structured record succeeds, with the whole text as the description,
\* no addon type and no tags.
C8_MetadataFallback ==
    LoadReturned =>
        \A a \in PlainArchives :
            input = a.stream =>
                /\ loadResult.ok
                /\ handle.loaded
                /\ handle.description = a.meta
                /\ handle.addon_type = None
                /\ handle.addon_tags = <<>>

\* an archive whose metadata is the cut structured text, opened
C8_Witness ==
    /\ pc = "open"
    /\ calls = 0
    /\ handle.description = JsonTitle \o <<84>>
    /\ handle.addon_type = None
    /\ handle.addon_tags = <<>>
    /\ \E table \in RawTables :
          input = RawArchive(IDENT, 3, <<114, 0, 0>>, <<110>>, JsonTitle \o <<84>>, <<97>>,
                             table, RawData)

\* C9: load of a stream that starts with the magic identifier and has a
\* version byte outside 1..3 fails with InvalidVersion of that byte, the
\* stream standing right after the version byte, and gives no handle; with
\* a version byte in 1..3 load does not fail with InvalidVersion.
C9_VersionValidation ==
    (LoadReturned /\ Len(input) >= 5 /\ SubSeq(input, 1, 4) = IDENT) =>
        IF input[5] \in {1, 2, 3}
        THEN loadResult.err # "InvalidVersion"
        ELSE /\ loadResult = [ok |-> FALSE, err |-> "InvalidVersion", arg |-> input[5],
                              pos |-> 5]
             /\ pc = "loadfail"
             /\ ~handle.loaded
             /\ ~reader.some

\* a whole archive with version 0 refused
C9_Witness ==
    /\ pc = "loadfail"
    /\ loadResult.err = "InvalidVersion"
    /\ loadResult.arg = 0
    /\ Len(input) > FixedHeaderLen
    /\ SubSeq(input, 1, 4) = IDENT

\* the builder with the compression switched
Switched == [builder EXCEPT !.compression = ~builder.compression]

\* the outcome r of load is the one of the state, but for the kind of the
\* stream
SameOutcome(r) ==
    /\ r.ok = loadResult.ok
    /\ r.err = loadResult.err
    /\ r.handle = handle
    /\ r.ok => r.stream.kind = (IF builder.compression THEN "Uncompressed" ELSE "Compressed")

\* the callback of the first read_entry after load, which has read nothing
\* yet, obtains the bytes it would obtain from the entry of the handle of r
SameContents(r) ==
    CallBytes = Obtainable(EntryCall(r.handle, r.stream, call.entry))

NonNull(s) == SelectSeq(s, LAMBDA b : b # 0)

\* C13: read_c_string never truncates: the string returned is exactly the
\* bytes consumed other than the null terminator, the count returned is the
\* number of bytes consumed, and the stream stands right after them; on a
\* stream that ends before a null byte the string is all the remaining bytes.
C13_NeverTruncates ==
    (binary.op = "read_c_string" /\ binary.ok) =>
        /\ binary.val = NonNull(SubSeq(binary.arg, 1, binary.n))
        /\ binary.n = NullFrom(binary.arg, 0)
        /\ (~Contains(binary.arg, 0)) => binary.val = binary.arg

\* C14: write_c_string of a text with a null byte fails with InvalidCString
\* and writes no byte; of any other text it writes the bytes of the text and
\* exactly one null byte after them, and returns the length of the text plus
\* one.
C14_WriteCString ==
    binary.op = "write_c_string" =>
        IF Contains(binary.arg, 0)
        THEN /\ ~binary.ok
             /\ binary.err = "InvalidCString"
             /\ binary.sink = <<>>
        ELSE /\ binary.ok
             /\ binary.sink = binary.arg \o <<0>>
             /\ binary.n = Len(binary.arg) + 1

\* "AB" written: three bytes, the last one the terminator
C14_Witness ==
    /\ binary.op = "write_c_string"
    /\ binary.arg = <<65, 66>>
    /\ binary.ok
    /\ binary.sink = <<65, 66, 0>>
    /\ binary.n = 3

\* write_to has just returned or aborted; the builder, the sink and the
\* result stay as they are from then on
WriteReturned == pc = "written" \/ (pc = "panicked" /\ writeResult = "panic")

\* the reads of the script that return an error
FailedReads(script) == {k \in 1..Len(script) : script[k].kind # "Data"}

\* a file source of the builder has a read that fails
SomeReadFails == \E i \in 1..Len(builder.files) : FailedReads(builder.files[i].reader.script) # {}

\* C12: no internal retry: when a read from a file source fails during pass
\* 2, whatever the kind of the I/O error (interrupted included), write_to
\* returns IOError after that one attempt.
C12_NoRetry ==
    (writeResult # "" /\ builder.name.some /\ ~sink.broken /\ SomeReadFails) =>
        writeResult = "IOError"

\* C15: when compression is requested and the transform, or a write to the
\* sink during it, fails, write_to returns an error result, CompressionError
\* or IOError, instead of aborting.
C15_CompressionFailure ==
    (writeResult # "" /\ builder.compression /\ sink.broken /\ passes.reached) =>
        writeResult \in {"CompressionError", "IOError"}

\* the sink of the state is the one write_to was given, untouched
SinkUnchanged == sink.buf = <<>> /\ sink.pos = 0

\* the sink holds the compressed form of the archive `plain`, and nothing else
SinkHoldsCompressed(plain) ==
    /\ lzma_decompress(sink.buf, 0).ok
    /\ lzma_decompress(sink.buf, 0).val = plain

\* the state after write_to with compression, r being the result of building
\* the same archive without compression
WholeArchive(r) ==
    IF r.ok
    THEN IF sink.broken THEN SinkUnchanged
         ELSE writeResult = "Ok" /\ SinkHoldsCompressed(r.w.buf)
    ELSE /\ writeResult = r.err
         /\ SinkUnchanged

\* C18: with compression on, write_to writes no byte to the sink until the
\* complete uncompressed archive, patch pass included, is built in the
\* temporary buffer: the sink holds the compressed form of the complete
\* archive or nothing, and when building fails write_to returns the error of
\* the build and the sink is unchanged.
C18_WholeArchive ==
    (WriteReturned /\ builder.compression) => WholeArchive(write_to(NewWriter, Switched))

\* a source whose second read fails: IOError, and the working sink is empty
C18_Witness ==
    /\ pc = "written"
    /\ writeResult = "IOError"
    /\ builder.compression
    /\ builder.name.some
    /\ ~sink.broken
    /\ SomeReadFails
    /\ Len(builder.files) = 1
    /\ SinkUnchanged

\* the entry record of the i-th file stands in buf with its placeholders at
\* offset: the file number, the name, a null byte, then the placeholders
RecordAt(buf, offset, i) ==
    /\ offset >= 4 + Len(builder.files[i].filename) + 1
    /\ offset + 12 <= Len(buf)
    /\ SubSeq(buf, offset - Len(builder.files[i].filename) - 4, offset)
          = to_le_bytes(Word(i, 4)) \o builder.files[i].filename \o <<0>>

\* C16: whenever write_to reaches the patch pass there are as many
\* placeholder offsets as patch records (the assertion cannot fail), one of
\* each per file; the i-th offset is the position of the placeholders of the
\* i-th file and the i-th patch record holds the size and the checksum of the
\* contents of that file.
C16_PassBookkeeping ==
    (WriteReturned /\ passes.reached) =>
        /\ Len(passes.patch_offsets) = Len(passes.patch_info)
        /\ Len(passes.patch_offsets) = Len(builder.files)
        /\ writeResult # "panic" \/ (builder.compression /\ sink.broken)
        /\ \A i \in 1..Len(builder.files) :
              /\ RecordAt(passes.buf, passes.patch_offsets[i], i)
              /\ SubSeq(passes.buf, passes.patch_offsets[i] + 1,
                        passes.patch_offsets[i] + 12) = Zeros(12)
              /\ passes.patch_info[i].filesize
                    = Word(Len(builder.files[i].reader.bytes), 8)
              /\ passes.patch_info[i].crc = Crc32(builder.files[i].reader.bytes)

\* two files of different contents reach the patch pass
C16_Witness ==
    /\ pc = "written"
    /\ passes.reached
    /\ writeResult = "Ok"
    /\ Len(builder.files) = 2
    /\ builder.files[1].reader.bytes = <<7>>
    /\ builder.files[2].reader.bytes = <<104, 105>>
    /\ passes.patch_offsets[1] < passes.patch_offsets[2]

\* the uncompressed archive write_to_gen left when write_to returned Ok
FinalArchive == IF builder.compression THEN lzma_decompress(sink.buf, 0).val ELSE sink.buf

\* the positions of the placeholders of the i-th entry record
Placeholders(i) == (passes.patch_offsets[i] + 1)..(passes.patch_offsets[i] + 12)

\* C17: the patch pass changes only the 12 placeholder bytes of each entry
\* record, the 8 bytes of the size and the 4 bytes of the checksum: it sets
\* them to the number of bytes streamed for the file and to their checksum,
\* and every other byte of the archive is as the first two passes left it.
C17_PatchFrame ==
    (WriteReturned /\ writeResult = "Ok" /\ passes.reached) =>
        /\ Len(FinalArchive) = Len(passes.buf)
        /\ \A k \in 1..Len(passes.buf) :
              (\A i \in 1..Len(builder.files) : k \notin Placeholders(i))
                 => FinalArchive[k] = passes.buf[k]
        /\ \A i \in 1..Len(builder.files) :
              /\ SubSeq(FinalArchive, passes.patch_offsets[i] + 1, passes.patch_offsets[i] + 8)
                    = to_le_bytes(Word(Len(builder.files[i].reader.bytes), 8))
              /\ SubSeq(FinalArchive, passes.patch_offsets[i] + 9, passes.patch_offsets[i] + 12)
                    = to_le_bytes(Crc32(builder.files[i].reader.bytes))

\* an archive of one two-byte file: the patch pass changed placeholder bytes
C17_Witness ==
    /\ pc = "written"
    /\ writeResult = "Ok"
    /\ passes.reached
    /\ ~builder.compression
    /\ Len(builder.files) = 1
    /\ builder.files[1].reader.bytes = <<104, 105>>
    /\ sink.buf # passes.buf
    /\ sink.buf[passes.patch_offsets[1] + 1] = 2

\* the bytes load parsed: the input, or what it decompressed to
ParsedData == IF SubSeq(input, 1, 4) = IDENT THEN input ELSE lzma_decompress(input, 0).val

\* the bytes of one record of the table after its index
RecordBytes(e) == e.filename \o <<0>> \o to_le_bytes(e.filesize) \o to_le_bytes(e.crc)

RECURSIVE TableLen(_)
\* the length of the table of the entries, terminating index included
TableLen(entries) ==
    IF entries = <<>> THEN 4
    ELSE 4 + Len(RecordBytes(Head(entries))) + TableLen(Tail(entries))

RECURSIVE TableAt(_, _, _)
\* from position pos on, data holds a record with a nonzero index for each of
\* the entries, in order, and then the zero index
TableAt(data, pos, entries) ==
    IF entries = <<>> THEN SubSeq(data, pos + 1, pos + 4) = to_le_bytes(Word(0, 4))
    ELSE /\ pos + 4 <= Len(data)
         /\ SubSeq(data, pos + 1, pos + 4) # to_le_bytes(Word(0, 4))
         /\ SubSeq(data, pos + 5, pos + 4 + Len(RecordBytes(Head(entries))))
               = RecordBytes(Head(entries))
         /\ TableAt(data, pos + 4 + Len(RecordBytes(Head(entries))), Tail(entries))

\* C11: after load the entries are listed in table order, the first entry has
\* offset 0, the offset of every later entry is the offset of the entry
\* before it plus the size of that entry, and file_data_start is the position
\* right after the terminating zero index: the ranges of the entries neither
\* overlap nor leave a gap.
C11_EntryOffsets ==
    handle.loaded =>
        /\ Small(handle.file_data_start) >= TableLen(handle.entries)
        /\ TableAt(ParsedData, Small(handle.file_data_start) - TableLen(handle.entries),
                   handle.entries)
        /\ handle.entries # <<>> => handle.entries[1].offset = Word(0, 8)
        /\ \A i \in 2..Len(handle.entries) :
              /\ ~AddU64(handle.entries[i - 1].offset, handle.entries[i - 1].filesize).overflow
              /\ handle.entries[i].offset
                    = AddU64(handle.entries[i - 1].offset, handle.entries[i - 1].filesize).sum

\* the stream in the slot of the handle reads the same bytes as before
SameStream(before, after) ==
    (before.some /\ after.some) =>
        (after.val.data = before.val.data /\ after.val.kind = before.val.kind)

\* C19: read_entry is independent of history: whatever calls came before, in
\* whatever order and however many bytes their callbacks read, a call
\* delivers for an entry the bytes the first call for that entry could
\* obtain; and no call on the handle changes the header fields, the entry
\* table or file_data_start, only the position of the stream.
C19_HistoryIndependent ==
    /\ []((call.entry # 0 /\ handle.loaded) =>
             /\ firstBytes[call.entry].some
             /\ CallBytes = firstBytes[call.entry].val)
    /\ [][(pc \in {"open", "callback"}) =>
             (handle' = handle /\ input' = input /\ SameStream(reader, reader'))]_vars

\* the first entry of two read twice, each call returning Ok, the second
\* having delivered both bytes of the entry
C19_Witness ==
    /\ pc = "open"
    /\ reads = 2
    /\ readResult = "Ok"
    /\ reader.some
    /\ Len(handle.entries) = 2
    /\ firstBytes[1].some
    /\ ~firstBytes[2].some
    /\ call.entry = 1
    /\ Len(call.delivered) = 2
    /\ call.delivered = firstBytes[1].val

\* the stream does not start with the magic identifier
LacksIdent(stream) == Len(stream) >= 4 /\ SubSeq(stream, 1, 4) # IDENT

RECURSIVE SumOfSizes(_, _)
\* the sum of the sizes of the first n entries, and whether a partial sum of
\* them exceeds 64 bits
SumOfSizes(entries, n) ==
    IF n = 0 THEN [sum |-> Word(0, 8), overflow |-> FALSE]
    ELSE [sum      |-> AddU64(SumOfSizes(entries, n - 1).sum, entries[n].filesize).sum,
          overflow |-> \/ SumOfSizes(entries, n - 1).overflow
                       \/ AddU64(SumOfSizes(entries, n - 1).sum,
                                 entries[n].filesize).overflow]

\* C22: offset arithmetic does not overflow: for every entry table load
\* accepts, whatever sizes it declares, the offset of each entry is the exact
\* sum of the sizes before it, the position read_entry seeks to is the exact
\* sum file_data_start + offset, and no 64-bit addition wraps around or
\* aborts.
C22_NoOverflow ==
    /\ (LoadCalled /\ Len(input) >= 4 /\ SubSeq(input, 1, 4) = IDENT) =>
          loadResult.err # "panic"
    /\ handle.loaded =>
          /\ ~SumOfSizes(handle.entries, Len(handle.entries)).overflow
          /\ \A i \in 1..Len(handle.entries) :
                handle.entries[i].offset = SumOfSizes(handle.entries, i - 1).sum
    /\ (handle.loaded /\ pc = "callback") =>
          /\ ~EntryStart(handle, handle.entries[call.entry]).overflow
          /\ call.stream.pos
                = Small(EntryStart(handle, handle.entries[call.entry]).sum)
                     + Len(call.delivered)

\* no read moves the stream backwards; an iteration of the required-content
\* loop that is followed by another one, and a test of the entry-table loop
\* that does not return an error, have consumed at least one byte
LoopsAdvance ==
    /\ parse'.pos >= parse.pos
    /\ (parse.phase = "required" /\ parse'.phase = "required") => parse'.pos > parse.pos
    /\ (parse.phase = "index" /\ parse'.phase # "failed") => parse'.pos > parse.pos

\* C21: load terminates on every finite uncompressed input: on a stream that
\* starts with the magic identifier the required-content loop and the
\* entry-table loop consume at least one byte per iteration or stop, and
\* load eventually returns a handle or an error, also when the stream ends
\* inside the required-content section or inside the entry table.
C21_LoadTerminates ==
    /\ [][LoopsAdvance]_vars
    /\ <>(parse.phase \in {"returned", "failed"})

====
